---- MODULE Spec2Model ----
(***************************************************************************)
(* A model of clean_mesh.py (MeshCleaner): the component selector          *)
(* select_main_component, the per-file processor process_file, the batch   *)
(* driver process_directory and the CLI entry point main.                  *)
(*                                                                         *)
(* A behaviour is one call of one of these four functions by an outside    *)
(* caller (variable entry).  The mesh library (trimesh.load, Mesh.split,   *)
(* Mesh.export), Path.mkdir and the file system are the environment: what  *)
(* they return, and whether they raise, is chosen nondeterministically.    *)
(*                                                                         *)
(* Conventions                                                             *)
(*  - a string that the code inspects character by character (a format, a  *)
(*    file name) is a sequence of one-character strings;                   *)
(*  - positions in sequences are 1-based: position p is Python index p-1;  *)
(*  - a volume is an integer number of units of 1e-12, the epsilon of      *)
(*    line 43 (EPS), so that volumes below, at and above the epsilon are   *)
(*    all represented; an area is a natural number, or Inf, float("inf");  *)
(*  - a float quotient is an exact fraction [num, den], +inf being 1/0.    *)
(***************************************************************************)
EXTENDS Integers, Sequences, FiniteSets, TLC

VARIABLES
    entry,          \* the function the outside caller invokes
    pc,             \* position of the call: "start", "process_directory", "loop",
                    \* "main_return", "done" (returned), "raised" (an exception escaped)
    raised,         \* exception that reached the outside caller ("None" if none)
    components,     \* select_main_component: argument components
    method,         \* argument method of every entry point
    selected,       \* select_main_component: outcome [raised, pos]
    output_file,    \* process_file: argument output_file (its name in the output directory)
    pfOut,          \* process_file: outcome of the (direct) call
    inExists,       \* the input directory exists
    inDir,          \* the input directory's file names, in enumeration order
    outExists,      \* the output directory exists
    outFiles,       \* the file names present in the output directory
    outExists0,     \* outExists when the call began
    outFiles0,      \* outFiles when the call began
    formats,        \* process_directory: argument formats
    fmt_list,       \* process_directory: normalised formats (line 122)
    files,          \* process_directory: discovered files (lines 123-126)
    calls,          \* process_directory: process_file invocations made so far
    success_count,  \* process_directory: line 134, 140
    processed,      \* value returned by process_directory (-1: not returned)
    exit_code       \* value returned by main (-1: not returned)

vars == <<entry, pc, raised, components, method, selected, output_file, pfOut, inExists, inDir,
          outExists, outFiles, outExists0, outFiles0, formats, fmt_list, files, calls,
          success_count, processed, exit_code>>

----------------------------------------------------------------------------
(* Bounds of the model *)

\* largest finite area of a component
MaxArea == 2
\* largest volume of a component, in units of the epsilon
MaxVol == 2
\* longest component list handed to select_main_component directly
MaxComps == 3
\* longest component list Mesh.split returns inside process_file
MaxSplit == 2
\* most files in the input directory
MaxFiles == 2
\* longest list of requested formats
MaxFormats == 2

\* The epsilon 1e-12 of line 43, in units of itself.
EPS == 1

\* float("inf") as an area: above every finite area of the model.
Inf == MaxArea + 1

----------------------------------------------------------------------------
(* Sequences and strings *)

Range(s) == {s[i] : i \in 1..Len(s)}

SeqsUpTo(S, n) == UNION {[1..k -> S] : k \in 0..n}

NoDuplicates(s) == \A i, j \in 1..Len(s) : i # j => s[i] # s[j]

RECURSIVE FilterSeq(_, _)
\* [x for x in s if x \in keep]
FilterSeq(s, keep) ==
    IF s = <<>> THEN <<>>
    ELSE IF Head(s) \in keep THEN <<Head(s)>> \o FilterSeq(Tail(s), keep)
    ELSE FilterSeq(Tail(s), keep)

\* str.isspace() of one character
IsSpace(c) == c \in {" ", "\t"}

RECURSIVE LStripSpace(_)
LStripSpace(s) ==
    IF s # <<>> /\ IsSpace(Head(s)) THEN LStripSpace(Tail(s)) ELSE s

RECURSIVE RStripSpace(_)
RStripSpace(s) ==
    IF s # <<>> /\ IsSpace(s[Len(s)]) THEN RStripSpace(SubSeq(s, 1, Len(s) - 1)) ELSE s

\* str.strip()
Strip(s) == RStripSpace(LStripSpace(s))

RECURSIVE LStripDot(_)
\* str.lstrip(".")
LStripDot(s) ==
    IF s # <<>> /\ Head(s) = "." THEN LStripDot(Tail(s)) ELSE s

\* str.lower() of one character, on the alphabet of the model
LowerChar(c) ==
    CASE c = "S" -> "s"
      [] c = "T" -> "t"
      [] c = "L" -> "l"
      [] c = "O" -> "o"
      [] c = "B" -> "b"
      [] c = "J" -> "j"
      [] OTHER -> c

\* str.lower()
Lower(s) == [i \in 1..Len(s) |-> LowerChar(s[i])]

----------------------------------------------------------------------------
(* select_main_component, lines 18-52 *)

Areas == (0..MaxArea) \cup {Inf}
Volumes == (-1)..MaxVol
Components == [area : Areas, volume : Volumes]
Methods == {"first", "ratio", "largest"}

PosInf == [num |-> 1, den |-> 0]

\* a / b for floats a >= 0 (or inf) and b > 0
FloatDiv(a, b) == IF a = Inf THEN PosInf ELSE [num |-> a, den |-> b]

\* r1 < r2 for quotients with a denominator >= 0
FloatLess(r1, r2) == r1.num * r2.den < r2.num * r1.den

\* line 43
GuardedVolume(comp) ==
    IF comp.volume # 0 /\ comp.volume > EPS THEN comp.volume ELSE EPS

\* line 44
Ratio(comp) == FloatDiv(comp.area, GuardedVolume(comp))

RECURSIVE RatioScan(_, _, _, _)
\* The loop of lines 41-47 from position i on; best_comp = 0 stands for None.
RatioScan(comps, i, best_comp, best_ratio) ==
    IF i > Len(comps) THEN best_comp
    ELSE IF FloatLess(Ratio(comps[i]), best_ratio)
         THEN RatioScan(comps, i + 1, i, Ratio(comps[i]))
         ELSE RatioScan(comps, i + 1, best_comp, best_ratio)

Returned(p) == [raised |-> "None", pos |-> p]
Raises(e) == [raised |-> e, pos |-> 0]

\* A bug: an unrecognised method is rejected instead of falling back to "first".
SelectRejectsUnknown(comps, m) ==
    IF comps = <<>> THEN Raises("ValueError")
    ELSE IF m = "first" THEN Returned(1)
    ELSE IF m = "ratio"
         THEN LET best == RatioScan(comps, 1, 0, PosInf)
              IN  IF best = 0 THEN Raises("AssertionError") ELSE Returned(best)
    ELSE Raises("ValueError")

\* A bug: the emptiness check of lines 33-34 is missing.
SelectWithoutEmptyCheck(comps, m) ==
    IF m = "ratio"
    THEN LET best == RatioScan(comps, 1, 0, PosInf)
         IN  IF best = 0 THEN Raises("AssertionError") ELSE Returned(best)
    ELSE IF comps = <<>> THEN Raises("IndexError") ELSE Returned(1)

\* select_main_component(components, method): the position returned, or the
\* exception raised.
SelectMainComponent(comps, m) ==
    IF comps = <<>> THEN Raises("ValueError")
    ELSE IF m = "first" THEN Returned(1)
    ELSE IF m = "ratio"
         THEN LET best == RatioScan(comps, 1, 0, PosInf)
              IN  IF best = 0 THEN Raises("AssertionError") ELSE Returned(best)
    ELSE Returned(1)

----------------------------------------------------------------------------
(* process_file, lines 55-88 *)

\* What export is invoked on: the loaded mesh, or the component at a position.
NoMesh == [kind |-> "none", pos |-> 0]
WholeMesh == [kind |-> "mesh", pos |-> 0]
ComponentAt(p) == [kind |-> "component", pos |-> p]

\* The component lists Mesh.split returns in the model: a compact component,
\* a slender one of zero volume, and one whose area is not finite.
SplitComponents ==
    { [area |-> 1, volume |-> MaxVol],
      [area |-> MaxArea, volume |-> 0],
      [area |-> Inf, volume |-> MaxVol] }
SplitLists == SeqsUpTo(SplitComponents, MaxSplit)

\* The environment of one process_file call: the step at which the library or
\* the file system raises ("none": nowhere), and the components split returns.
\* An export raises either before it has created the output file ("export")
\* or after it has ("export_partial": an error while the file is written).
PFEnvs ==
    { [failAt |-> s, comps |-> <<>>] : s \in {"load", "split"} }
    \cup [failAt : {"mkdir", "export", "export_partial", "none"}, comps : SplitLists]

\* The state of a process_file call inside the try block (lines 70-85).
Frame(exists, present) ==
    [ raised |-> "None", failedAt |-> "none", comps |-> <<>>, selCalls |-> <<>>,
      processed_mesh |-> NoMesh, exportArg |-> NoMesh, written |-> {},
      outExists |-> exists, outFiles |-> present ]

Throw(f, step, e) == [f EXCEPT !.raised = e, !.failedAt = step]

\* line 73: trimesh.load(input_path, force="mesh")
StepLoad(f, env) ==
    IF f.raised # "None" THEN f
    ELSE IF env.failAt = "load" THEN Throw(f, "load", "RuntimeError")
    ELSE f

\* line 74: list(mesh.split(only_watertight=False))
StepSplit(f, env) ==
    IF f.raised # "None" THEN f
    ELSE IF env.failAt = "split" THEN Throw(f, "split", "RuntimeError")
    ELSE [f EXCEPT !.comps = env.comps]

\* A bug: the selector is consulted for a single component too (>= 1).
StepSelectAlways(f, m) ==
    IF f.raised # "None" THEN f
    ELSE IF Len(f.comps) >= 1
         THEN LET r == SelectMainComponent(f.comps, m)
                  g == [f EXCEPT !.selCalls =
                          Append(@, [components |-> f.comps, method |-> m, result |-> r])]
              IN  IF r.raised # "None" THEN Throw(g, "select", r.raised)
                  ELSE [g EXCEPT !.processed_mesh = ComponentAt(r.pos)]
    ELSE [f EXCEPT !.processed_mesh = WholeMesh]

\* lines 76-81
StepSelect(f, m) ==
    IF f.raised # "None" THEN f
    ELSE IF Len(f.comps) > 1
         THEN LET r == SelectMainComponent(f.comps, m)
                  g == [f EXCEPT !.selCalls =
                          Append(@, [components |-> f.comps, method |-> m, result |-> r])]
              IN  IF r.raised # "None" THEN Throw(g, "select", r.raised)
                  ELSE [g EXCEPT !.processed_mesh = ComponentAt(r.pos)]
    ELSE [f EXCEPT !.processed_mesh = WholeMesh]

\* line 83: output_path.parent.mkdir(parents=True, exist_ok=True); it cannot
\* fail on a directory that exists.
StepMkdir(f, env) ==
    IF f.raised # "None" THEN f
    ELSE IF env.failAt = "mkdir" /\ ~f.outExists THEN Throw(f, "mkdir", "OSError")
    ELSE [f EXCEPT !.outExists = TRUE]

\* line 84: processed_mesh.export(output_path). process_file removes nothing
\* in its handler (lines 86-88): what a failing export has already put at the
\* output path stays there.
StepExport(f, env, output_path) ==
    IF f.raised # "None" THEN f
    ELSE IF env.failAt = "export"
         THEN Throw([f EXCEPT !.exportArg = f.processed_mesh], "export", "ValueError")
    ELSE IF env.failAt = "export_partial"
         THEN Throw([f EXCEPT !.exportArg = f.processed_mesh,
                              !.written = @ \cup {output_path},
                              !.outFiles = @ \cup {output_path}], "export", "OSError")
    ELSE [f EXCEPT !.exportArg = f.processed_mesh,
                   !.written = @ \cup {output_path},
                   !.outFiles = @ \cup {output_path}]

\* The classes derived from Exception among those the model raises.
ExceptionSubclasses ==
    {"ValueError", "AssertionError", "RuntimeError", "OSError", "IndexError"}

\* A bug: the handler is written for file-system errors only (except OSError).
CatchesOSErrorOnly(e) == e = "OSError"

\* line 86: except Exception
Catches(e) == e \in ExceptionSubclasses

\* lines 85-88: return True, or the handler's return False; an exception the
\* handler does not catch propagates to the caller.
Handler(f) ==
    [ ret |-> f.raised = "None",
      propagated |-> IF f.raised # "None" /\ ~Catches(f.raised) THEN f.raised ELSE "None",
      failedAt |-> f.failedAt, raisedInside |-> f.raised, comps |-> f.comps,
      selCalls |-> f.selCalls, exportArg |-> f.exportArg, written |-> f.written,
      outExists |-> f.outExists, outFiles |-> f.outFiles ]

\* process_file(input_file, output_file, method) in environment env, the
\* output directory being in state (exists, present).
ProcessFile(output_path, m, env, exists, present) ==
    Handler(
      StepExport(
        StepMkdir(
          StepSelect(
            StepSplit(
              StepLoad(Frame(exists, present), env),
              env),
            m),
          env),
        env, output_path))

\* pfOut before process_file has been called
NotCalled ==
    [ ret |-> FALSE, propagated |-> "pending", failedAt |-> "none",
      raisedInside |-> "None", comps |-> <<>>, selCalls |-> <<>>,
      exportArg |-> NoMesh, written |-> {}, outExists |-> FALSE, outFiles |-> {} ]

----------------------------------------------------------------------------
(* process_directory, lines 91-148 *)

A_STL == <<"a", ".", "s", "t", "l">>
B_STL == <<"b", ".", "s", "t", "l">>
C_OBJ == <<"c", ".", "o", "b", "j">>
FileNames == {A_STL, B_STL, C_OBJ}

\* The requested formats a caller passes: "stl", ".STL", " stl ", "obj", " "
RawFormats ==
    { <<"s", "t", "l">>, <<".", "S", "T", "L">>, <<" ", "s", "t", "l", " ">>,
      <<"o", "b", "j">>, <<" ">> }
FormatLists == SeqsUpTo(RawFormats, MaxFormats)

\* The directory listings of the model: no name twice
Listings == {l \in SeqsUpTo(FileNames, MaxFiles) : NoDuplicates(l)}

\* f.strip().lstrip(".").lower() of line 122
NormalizeFormat(f) == Lower(LStripDot(Strip(f)))

RECURSIVE FmtList(_)
\* line 122: [f.strip().lstrip(".").lower() for f in formats if f.strip()]
FmtList(fs) ==
    IF fs = <<>> THEN <<>>
    ELSE IF Strip(Head(fs)) # <<>>
         THEN <<NormalizeFormat(Head(fs))>> \o FmtList(Tail(fs))
         ELSE FmtList(Tail(fs))

\* glob's match of a file name against "*.<fmt>": the name ends with the dot
\* and the format, and "*" does not match a leading dot.
GlobMatches(name, fmt) ==
    /\ Len(name) >= Len(fmt) + 1
    /\ Head(name) # "."
    /\ SubSeq(name, Len(name) - Len(fmt), Len(name)) = <<".">> \o fmt

\* glob.glob(str(in_dir / f"*.{fmt}")): the matching names, in the
\* directory's enumeration order
Glob(listing, fmt) == FilterSeq(listing, {n \in Range(listing) : GlobMatches(n, fmt)})

RECURSIVE Discover(_, _)
\* lines 123-126
Discover(listing, fmts) ==
    IF fmts = <<>> THEN <<>>
    ELSE Glob(listing, Head(fmts)) \o Discover(listing, Tail(fmts))

\* A bug: every call is counted, whatever it returned.
SuccessCountAll(count, ret) == count + 1

\* lines 139-140
SuccessCount(count, ret) == IF ret THEN count + 1 ELSE count

----------------------------------------------------------------------------
(* main, lines 192-218 *)

RECURSIVE SplitComma(_)
\* str.split(",")
SplitComma(s) ==
    IF \A i \in 1..Len(s) : s[i] # "," THEN <<s>>
    ELSE LET k == CHOOSE i \in 1..Len(s) : s[i] = "," /\ \A j \in 1..(i - 1) : s[j] # ","
         IN  <<SubSeq(s, 1, k - 1)>> \o SplitComma(SubSeq(s, k + 1, Len(s)))

\* line 208: [f.strip() for f in args.formats.split(",")]
MainFormats(arg) ==
    LET parts == SplitComma(arg) IN [i \in 1..Len(parts) |-> Strip(parts[i])]

\* The --formats arguments of the model: "stl", "obj", "stl,obj", "stl, .STL", "stl,"
CliFormats ==
    { <<"s", "t", "l">>, <<"o", "b", "j">>,
      <<"s", "t", "l", ",", "o", "b", "j">>,
      <<"s", "t", "l", ",", " ", ".", "S", "T", "L">>,
      <<"s", "t", "l", ",">> }

\* --method is restricted by argparse (choices, line 172)
CliMethods == {"first", "ratio"}

\* A bug: the comparison includes zero.
MainExitNonNegative(n) == IF n >= 0 THEN 0 ELSE 1

\* line 218
MainExit(n) == IF n > 0 THEN 0 ELSE 1

----------------------------------------------------------------------------
(* The calls *)

\* The states of the output directory when a call begins
OutStates ==
    { [exists |-> FALSE, present |-> {}],
      [exists |-> TRUE, present |-> {}],
      [exists |-> TRUE, present |-> {A_STL}] }

Idle ==
    /\ pc = "start"
    /\ raised = "None"
    /\ selected = [raised |-> "pending", pos |-> 0]
    /\ pfOut = NotCalled
    /\ fmt_list = <<>>
    /\ files = <<>>
    /\ calls = <<>>
    /\ success_count = 0
    /\ processed = -1
    /\ exit_code = -1
    /\ outExists0 = outExists
    /\ outFiles0 = outFiles

InitSelect ==
    /\ entry = "select_main_component"
    /\ formats = <<>>
    /\ components \in SeqsUpTo(Components, MaxComps)
    /\ method \in Methods
    /\ output_file = <<>>
    /\ inExists = FALSE /\ inDir = <<>>
    /\ outExists = FALSE /\ outFiles = {}
    /\ Idle

InitFile ==
    /\ entry = "process_file"
    /\ formats = <<>>
    /\ components = <<>>
    /\ method \in Methods
    /\ output_file \in FileNames
    /\ inExists = TRUE /\ inDir = <<>>
    /\ \E o \in OutStates : outExists = o.exists /\ outFiles = o.present
    /\ Idle

InitDirectory ==
    /\ \/ entry = "process_directory" /\ method \in Methods /\ formats \in FormatLists
       \/ entry = "main" /\ method \in CliMethods /\ formats = <<>>
    /\ components = <<>>
    /\ output_file = <<>>
    /\ \/ inExists = FALSE /\ inDir = <<>>
       \/ inExists = TRUE /\ inDir \in Listings
    /\ \E o \in OutStates : outExists = o.exists /\ outFiles = o.present
    /\ Idle

Init == InitSelect \/ InitFile \/ InitDirectory

\* The outside caller calls select_main_component(components, method).
CallSelect ==
    /\ entry = "select_main_component" /\ pc = "start"
    /\ selected' = SelectMainComponent(components, method)
    /\ raised' = selected'.raised
    /\ pc' = IF selected'.raised = "None" THEN "done" ELSE "raised"
    /\ UNCHANGED <<entry, components, method, output_file, pfOut, inExists, inDir,
                   outExists, outFiles, outExists0, outFiles0, formats, fmt_list, files,
                   calls, success_count, processed, exit_code>>

\* The outside caller calls process_file(input_file, output_file, method).
CallProcessFile ==
    /\ entry = "process_file" /\ pc = "start"
    /\ \E env \in PFEnvs :
         LET r == ProcessFile(output_file, method, env, outExists, outFiles)
         IN  /\ pfOut' = r
             /\ outExists' = r.outExists
             /\ outFiles' = r.outFiles
             /\ raised' = r.propagated
             /\ pc' = IF r.propagated = "None" THEN "done" ELSE "raised"
    /\ UNCHANGED <<entry, components, method, selected, output_file, inExists, inDir,
                   outExists0, outFiles0, formats, fmt_list, files, calls, success_count,
                   processed, exit_code>>

\* Where process_directory returns to
AfterDirectory == IF entry = "main" THEN "main_return" ELSE "done"

\* A bug: the output directory is created before the input directory is checked.
PDStartCreatesFirst ==
    /\ \/ entry = "process_directory" /\ pc = "start"
       \/ entry = "main" /\ pc = "process_directory"
    /\ \E mkdirOk \in BOOLEAN :
         LET fmts == FmtList(formats)
             found == Discover(inDir, fmts)
         IN  IF ~outExists /\ ~mkdirOk
             THEN /\ raised' = "OSError" /\ pc' = "raised"
                  /\ UNCHANGED <<outExists, fmt_list, files, processed>>
             ELSE IF ~inExists
             THEN /\ processed' = 0 /\ pc' = AfterDirectory /\ outExists' = TRUE
                  /\ UNCHANGED <<raised, fmt_list, files>>
             ELSE /\ outExists' = TRUE
                  /\ fmt_list' = fmts
                  /\ files' = found
                  /\ processed' = IF found = <<>> THEN 0 ELSE processed
                  /\ pc' = IF found = <<>> THEN AfterDirectory ELSE "loop"
                  /\ UNCHANGED raised
    /\ UNCHANGED <<entry, components, method, selected, output_file, pfOut, inExists,
                   inDir, outFiles, outExists0, outFiles0, formats, calls,
                   success_count, exit_code>>

\* process_directory up to its loop, lines 112-134: the check of the input
\* directory, the creation of the output directory, the discovery.
PDStart ==
    /\ \/ entry = "process_directory" /\ pc = "start"
       \/ entry = "main" /\ pc = "process_directory"
    /\ \E mkdirOk \in BOOLEAN :
         LET fmts == FmtList(formats)
             found == Discover(inDir, fmts)
         IN  IF ~inExists
             THEN /\ processed' = 0 /\ pc' = AfterDirectory
                  /\ UNCHANGED <<raised, outExists, fmt_list, files>>
             ELSE IF ~outExists /\ ~mkdirOk
             THEN /\ raised' = "OSError" /\ pc' = "raised"
                  /\ UNCHANGED <<outExists, fmt_list, files, processed>>
             ELSE /\ outExists' = TRUE
                  /\ fmt_list' = fmts
                  /\ files' = found
                  /\ processed' = IF found = <<>> THEN 0 ELSE processed
                  /\ pc' = IF found = <<>> THEN AfterDirectory ELSE "loop"
                  /\ UNCHANGED raised
    /\ UNCHANGED <<entry, components, method, selected, output_file, pfOut, inExists,
                   inDir, outFiles, outExists0, outFiles0, formats, calls,
                   success_count, exit_code>>

\* What process_directory observes of a process_file call: the value returned
\* (or the exception that escaped) and the call's effect on the output directory.
Observed(r) ==
    [ ret |-> r.ret, propagated |-> r.propagated,
      outExists |-> r.outExists, outFiles |-> r.outFiles ]

\* What a process_file call can be observed to do, over every environment,
\* for each method, output file and state of the output directory.
ObservedOutcomes ==
    { [ method |-> m, output_path |-> n, exists |-> e, present |-> p,
        seen |-> Observed(ProcessFile(n, m, env, e, p)) ] :
        m \in Methods, n \in FileNames, e \in BOOLEAN, p \in SUBSET FileNames,
        env \in PFEnvs }

\* One iteration of the loop of lines 135-141: process_file on the next file,
\* in any environment.
PDProcess ==
    /\ pc = "loop" /\ Len(calls) < Len(files)
    /\ LET file == files[Len(calls) + 1] IN
       \E o \in ObservedOutcomes :
         /\ o.method = method /\ o.output_path = file
         /\ o.exists = outExists /\ o.present = outFiles
         /\ LET r == o.seen IN
            IF r.propagated # "None"
            THEN /\ raised' = r.propagated /\ pc' = "raised"
                 /\ UNCHANGED <<calls, success_count, outExists, outFiles>>
            ELSE /\ calls' = Append(calls, [input_file |-> file, output_file |-> file,
                                            ret |-> r.ret])
                 /\ success_count' = SuccessCount(success_count, r.ret)
                 /\ outExists' = r.outExists
                 /\ outFiles' = r.outFiles
                 /\ UNCHANGED <<raised, pc>>
    /\ UNCHANGED <<entry, components, method, selected, output_file, pfOut, inExists,
                   inDir, outExists0, outFiles0, formats, fmt_list, files, processed,
                   exit_code>>

\* The end of the loop and lines 143-148: return success_count.
PDReturn ==
    /\ pc = "loop" /\ Len(calls) = Len(files)
    /\ processed' = success_count
    /\ pc' = AfterDirectory
    /\ UNCHANGED <<entry, raised, components, method, selected, output_file, pfOut,
                   inExists, inDir, outExists, outFiles, outExists0, outFiles0,
                   formats, fmt_list, files, calls, success_count, exit_code>>

\* main up to its call of process_directory, lines 194-209.
MainStart ==
    /\ entry = "main" /\ pc = "start"
    /\ \E arg \in CliFormats, makedirsOk \in BOOLEAN :
         IF ~inExists
         THEN /\ exit_code' = 1 /\ pc' = "done"
              /\ UNCHANGED <<raised, outExists, formats>>
         ELSE IF ~outExists /\ ~makedirsOk
         THEN /\ raised' = "OSError" /\ pc' = "raised"
              /\ UNCHANGED <<exit_code, outExists, formats>>
         ELSE /\ outExists' = TRUE
              /\ formats' = MainFormats(arg)
              /\ pc' = "process_directory"
              /\ UNCHANGED <<raised, exit_code>>
    /\ UNCHANGED <<entry, components, method, selected, output_file, pfOut, inExists,
                   inDir, outFiles, outExists0, outFiles0, fmt_list, files, calls,
                   success_count, processed>>

\* line 218
MainReturn ==
    /\ entry = "main" /\ pc = "main_return"
    /\ exit_code' = MainExit(processed)
    /\ pc' = "done"
    /\ UNCHANGED <<entry, raised, components, method, selected, output_file, pfOut,
                   inExists, inDir, outExists, outFiles, outExists0, outFiles0,
                   formats, fmt_list, files, calls, success_count, processed>>

Next ==
    \/ CallSelect
    \/ CallProcessFile
    \/ PDStart
    \/ PDProcess
    \/ PDReturn
    \/ MainStart
    \/ MainReturn

Spec == Init /\ [][Next]_vars

----------------------------------------------------------------------------
(* The properties *)

SelectReturned == entry = "select_main_component" /\ pc # "start"
FileReturned == entry = "process_file" /\ pc # "start"
DirectoryEntry == entry \in {"process_directory", "main"}

Max(a, b) == IF a >= b THEN a ELSE b

\* area / max(volume, epsilon), as the selector's contract states it
ContractRatio(comp) == FloatDiv(comp.area, Max(comp.volume, EPS))

\* position p holds the minimal ratio of comps, and is the earliest to hold it
EarliestMinimum(comps, p) ==
    /\ p \in 1..Len(comps)
    /\ \A j \in 1..Len(comps) : ~FloatLess(ContractRatio(comps[j]), ContractRatio(comps[p]))
    /\ \A j \in 1..(p - 1) : FloatLess(ContractRatio(comps[p]), ContractRatio(comps[j]))

\* C1: for every non-empty component list, select_main_component(components,
\* "ratio") raises nothing and returns the earliest component whose ratio
\* area / max(volume, epsilon) is minimal over the list.
C1_RatioReturnsEarliestMinimum ==
    (SelectReturned /\ method = "ratio" /\ components # <<>>)
        => /\ pc = "done"
           /\ selected.raised = "None"
           /\ EarliestMinimum(components, selected.pos)

\* What the ratio policy does guarantee: the same, for a list in which at
\* least one area is finite.
RatioReturnsEarliestMinimumOfFinite ==
    (SelectReturned /\ method = "ratio"
       /\ \E i \in 1..Len(components) : components[i].area # Inf)
        => /\ pc = "done"
           /\ selected.raised = "None"
           /\ EarliestMinimum(components, selected.pos)

\* C2: process_file lets no exception reach its caller: a failure of the
\* load, the split, the selection, the directory creation or the export makes
\* it return False, and it returns True only when every step up to and
\* including the export completed.
C2_FailuresReturnFalse ==
    FileReturned
        => /\ pc = "done"
           /\ raised = "None"
           /\ pfOut.propagated = "None"
           /\ pfOut.ret = (pfOut.failedAt = "none")
           /\ pfOut.ret => (pfOut.exportArg # NoMesh /\ output_file \in pfOut.written)

C2_Witness ==
    /\ FileReturned /\ pc = "done"
    /\ pfOut.failedAt = "select" /\ pfOut.raisedInside = "AssertionError"
    /\ pfOut.ret = FALSE

Successes(cs) == {i \in 1..Len(cs) : cs[i].ret}

\* C3: process_directory invokes process_file once per entry of the
\* discovered list, in the list's order, whatever the earlier invocations
\* returned; no invocation makes the run end with an exception; the value
\* returned is the number of invocations that returned True, between 0 and the
\* number of discovered files.
C3_EveryFileProcessedOnce ==
    DirectoryEntry
        => /\ Len(calls) <= Len(files)
           /\ \A i \in 1..Len(calls) : calls[i].input_file = files[i]
           /\ success_count = Cardinality(Successes(calls))
           /\ pc = "raised" => calls = <<>>
           /\ processed # -1
                => /\ Len(calls) = Len(files)
                   /\ processed = Cardinality(Successes(calls))
                   /\ processed \in 0..Len(files)

C3_Witness ==
    /\ entry = "process_directory" /\ pc = "done"
    /\ Len(files) = 2 /\ Len(calls) = 2
    /\ ~calls[1].ret /\ calls[2].ret
    /\ processed = 1

\* C4: process_file invokes the selector exactly once, with all N components
\* and the requested method, when the split yields N > 1 components, and what
\* it exports is the component the selector returned; when the split yields
\* one component the selector is not invoked and the mesh itself is exported;
\* the selector is never invoked with an empty list.
C4_SelectorInvokedOnceForSeveral ==
    (FileReturned /\ pfOut.failedAt \notin {"load", "split"})
        => /\ Len(pfOut.comps) > 1
                => /\ Len(pfOut.selCalls) = 1
                   /\ pfOut.selCalls[1].components = pfOut.comps
                   /\ pfOut.selCalls[1].method = method
                   /\ pfOut.exportArg # NoMesh
                        => pfOut.exportArg = ComponentAt(pfOut.selCalls[1].result.pos)
           /\ Len(pfOut.comps) = 1
                => /\ pfOut.selCalls = <<>>
                   /\ pfOut.exportArg # NoMesh => pfOut.exportArg = WholeMesh
           /\ \A i \in 1..Len(pfOut.selCalls) : pfOut.selCalls[i].components # <<>>
           /\ pfOut.ret => pfOut.exportArg # NoMesh

C4_Witness ==
    /\ FileReturned /\ pfOut.ret
    /\ Len(pfOut.comps) = 2 /\ Len(pfOut.selCalls) = 1
    /\ method = "ratio"
    /\ pfOut.exportArg = ComponentAt(2)

\* C5: process_file writes one file, the one at its output path, when it
\* returns True, and none when it returns False: after a failed call the
\* output location holds the files it held before.
C5_WritesOnlyOnSuccess ==
    FileReturned
        => /\ pfOut.ret => (pfOut.written = {output_file}
                             /\ outFiles = outFiles0 \cup {output_file})
           /\ ~pfOut.ret => (pfOut.written = {} /\ outFiles = outFiles0)

\* What process_file does guarantee: a successful call writes the file at its
\* output path and no other; a call that failed before its export wrote none;
\* a call never touches a file other than the one at its output path.
WritesOnlyTheOutputFile ==
    FileReturned
        => /\ pfOut.written \subseteq {output_file}
           /\ outFiles = outFiles0 \cup pfOut.written
           /\ pfOut.ret => pfOut.written = {output_file}
           /\ (~pfOut.ret /\ pfOut.failedAt # "export") => pfOut.written = {}

\* C6: main returns 0 if and only if at least one file was processed
\* successfully, and 1 otherwise: when the input directory is missing, when
\* no file matches the formats, when every discovered file failed.
C6_ExitZeroIffSomeSuccess ==
    (entry = "main" /\ pc = "done")
        => /\ exit_code \in {0, 1}
           /\ exit_code = 0 <=> Successes(calls) # {}
           /\ ~inExists => exit_code = 1
           /\ files = <<>> => exit_code = 1

C6_Witness ==
    /\ entry = "main" /\ pc = "done"
    /\ Len(calls) = 2 /\ Successes(calls) = {}
    /\ exit_code = 1

\* C7: with a missing input directory process_directory returns 0 at once:
\* process_file is never invoked, no output file is created and the output
\* directory is not created.
C7_MissingInputDoesNothing ==
    (entry = "process_directory" /\ ~inExists /\ pc # "start")
        => /\ pc = "done" /\ raised = "None"
           /\ processed = 0
           /\ calls = <<>> /\ files = <<>>
           /\ outFiles = outFiles0
           /\ outExists = outExists0

C7_Witness ==
    /\ entry = "process_directory" /\ ~inExists /\ pc = "done"
    /\ ~outExists0 /\ ~outExists
    /\ processed = 0

\* C8: for a non-empty list and a method other than "ratio" ("first" or an
\* unrecognised one), select_main_component raises nothing and returns the
\* element at index 0.
C8_OtherMethodsReturnFirst ==
    (SelectReturned /\ method # "ratio" /\ components # <<>>)
        => /\ pc = "done"
           /\ selected = Returned(1)

C8_Witness ==
    /\ SelectReturned /\ pc = "done"
    /\ method = "largest"
    /\ Len(components) = 2
    /\ FloatLess(Ratio(components[2]), Ratio(components[1]))
    /\ selected.pos = 1

\* C9: select_main_component raises ValueError on an empty list, for every
\* method, and returns nothing.
C9_EmptyListRaisesValueError ==
    (SelectReturned /\ components = <<>>)
        => /\ pc = "raised"
           /\ raised = "ValueError"
           /\ selected = Raises("ValueError")

C9_Witness ==
    /\ SelectReturned /\ components = <<>>
    /\ method = "ratio"
    /\ pc = "raised" /\ raised = "ValueError"

\* C10: within one process_directory run no two process_file invocations
\* target the same output path, whatever the requested formats.
C10_OutputPathsDisjoint ==
    DirectoryEntry
        => \A i, j \in 1..Len(calls) :
             i # j => calls[i].output_file # calls[j].output_file

====
